---- MODULE Spec2Model ----
(***************************************************************************)
(* NeuroVault: a face-gated encrypted notes vault.                         *)
(*                                                                         *)
(*   FaceAuthenticator  (neurovault_face_auth.py)  verify_face and the     *)
(*                       authenticate() sampling loop                      *)
(*   VaultEncryptor     (neurovault_encryptor.py)  key file, data file,    *)
(*                       Fernet encrypt / decrypt, load / save             *)
(*   NeuroVaultApp      (neurovault_main.py)       login screen, worker    *)
(*                       thread, handle_auth_result, vault screen, logout  *)
(*                                                                         *)
(* Three specifications share the variables:                               *)
(*   SpecAuth   one FaceAuthenticator and its authenticate() calls         *)
(*   SpecVault  one VaultEncryptor and its data-file operations            *)
(*   SpecApp    the application's event handlers and worker threads        *)
(*                                                                         *)
(* Units.  Embedding coordinates and the tolerance are in tenths, so the   *)
(* source's tolerance 0.6 is 6.  time.time() - start_time is kept in whole *)
(* seconds; any number of loop iterations may fall within one second.      *)
(***************************************************************************)
EXTENDS Integers, Sequences, FiniteSets, TLC

(***************************************************************************)
(* Bounds of the exploration (not program constants)                       *)
(***************************************************************************)
\* frames processed by one authenticate() call that the exploration follows
MaxTrace == 6
\* faces found in one camera frame
MaxFaces == 2
\* seconds of wall-clock time followed after start_time
MaxElapsed == 12
\* worker threads (authenticate_face / capture_face) alive at once
MaxThreads == 2
\* callbacks waiting in the Tk event queue (root.after)
MaxQueue == 2
\* distinct Fernet keys
MaxKeys == 2
\* backup files kept next to the data file
MaxBackups == 1
\* bytes of the file given to secure_delete_file
MaxSize == 3

(***************************************************************************)
(* Program constants                                                       *)
(***************************************************************************)
tolerance == 6
max_attempts == 3
timeout_seconds == 10
required_matches == 3
passes == 3

MsgSuccess == "Authentication successful"
MsgMaxAttempts == "Authentication failed: Maximum attempts exceeded"
MsgTimeout == "Authentication failed: Timeout"
MsgNoReference == "No reference face found. Please setup face first."
MsgNoCamera == "Cannot access camera"

VARIABLES
    \* ---- FaceAuthenticator ----
    known_face_encodings,  \* self.known_face_encodings: sequence of embeddings
    state,                 \* position of authenticate(): IDLE, SAMPLING, ACCEPTED, REJECTED
    attempts,              \* local attempts
    consecutive_matches,   \* local consecutive_matches
    elapsed,               \* time.time() - start_time, whole seconds
    ret,                   \* ret of the last cap.read()
    trace,                 \* outcomes of the frames processed by this call
    result,                \* the returned (success, message); message "" while none
    \* ---- VaultEncryptor ----
    key_file,              \* contents of secret.key, or NoFile
    data_file,             \* contents of vault_data.json, or NoFile
    cipher,                \* key held by self.cipher
    last_call,             \* the last VaultEncryptor call and what it returned
    backups,               \* contents of the vault_data.json.backup_* files
    rotation,              \* the change_encryption_key call in progress, or the last one
    \* ---- NeuroVaultApp ----
    is_authenticated,      \* self.is_authenticated
    screen,                \* "login" or "vault": which interface the root window shows
    auth_button,           \* state of the Start Authentication button
    user_face,             \* user_face.jpg exists
    auth_threads,          \* authenticate_face worker threads running
    setup_threads,         \* capture_face worker threads running
    after_queue,           \* handle_auth_result callbacks posted with root.after
    vault_data,            \* self.vault_data
    notes_text,            \* contents of the notes text widget
    handled,               \* the (success, message) last given to handle_auth_result
    \* ---- VaultEncryptor.secure_delete_file ----
    target,                \* the file at file_path: its bytes, or NoFile
    deletion,              \* the secure_delete_file call in progress, or the last one
    \* ---- FaceAuthenticator, enrollment ----
    encodings_file,        \* contents of face_encodings.pkl, or NoFile
    reference_image,       \* the faces in user_face.jpg, or NoFile
    enrollment,            \* the last enrollment call and what its caller saw
    \* ---- FaceAuthenticator.verify_face ----
    verified               \* the last verify_face call: its argument and its value

authVars == <<known_face_encodings, state, attempts, consecutive_matches,
              elapsed, ret, trace, result>>
vaultVars == <<key_file, data_file, cipher, last_call, backups, rotation>>
appVars == <<is_authenticated, screen, auth_button, user_face, auth_threads,
             setup_threads, after_queue, vault_data, notes_text, handled>>
deleteVars == <<target, deletion>>
enrollVars == <<encodings_file, reference_image, enrollment>>
matchVars == <<verified>>
vars == <<authVars, vaultVars, appVars, deleteVars, enrollVars, matchVars>>

(***************************************************************************)
(* FaceAuthenticator.verify_face                                           *)
(***************************************************************************)
\* an embedding is a point; two coordinates stand for the 128 of the library
\* the points lie at distance 0, exactly tolerance, and just beyond it from <<0, 0>>
Embeddings == {<<0, 0>>, <<tolerance, 0>>, <<tolerance, 1>>, <<tolerance + 1, 0>>}

RECURSIVE SeqsUpTo(_, _)
SeqsUpTo(S, n) ==
    IF n = 0 THEN {<<>>}
    ELSE LET shorter == SeqsUpTo(S, n - 1)
         IN shorter \cup {Append(s, e) : s \in {t \in shorter : Len(t) = n - 1}, e \in S}

\* what face_recognition.face_encodings can return for one frame
Frames == SeqsUpTo(Embeddings, MaxFaces)

\* face_recognition.face_distance: Euclidean norm, kept squared
SqDistance(a, b) == (a[1] - b[1]) * (a[1] - b[1]) + (a[2] - b[2]) * (a[2] - b[2])

\* face_distances <= self.tolerance, on the squared distance
WithinTolerance_strict(d2) == d2 < tolerance * tolerance
WithinTolerance(d2) == d2 <= tolerance * tolerance

verify_face(known, face_encodings) ==
    IF known = <<>> \/ face_encodings = <<>> THEN FALSE
    ELSE \E i \in 1..Len(face_encodings) :
            \E j \in 1..Len(known) :
                WithinTolerance(SqDistance(known[j], face_encodings[i]))

\* the outcome of one frame that cap.read() delivered:
\* detect_and_encode_face finds no face, or verify_face decides
FrameOutcome(known, face_encodings) ==
    IF face_encodings = <<>> THEN "NO_FACE"
    ELSE IF verify_face(known, face_encodings) THEN "MATCH"
    ELSE "MISMATCH"

(***************************************************************************)
(* FaceAuthenticator.authenticate                                          *)
(***************************************************************************)
NoFile == [exists |-> FALSE]
NoResult == [success |-> FALSE, message |-> ""]
Terminal == {"ACCEPTED", "REJECTED"}

\* line 191: time.time() - start_time > self.timeout_seconds
TimedOut_inclusive(e) == e >= timeout_seconds
TimedOut_millis(e) == e > timeout_seconds * 1000
TimedOut(e) == e > timeout_seconds

\* lines 225-228: the message after the loop
ExitMessage_swapped(a) == IF a >= max_attempts THEN MsgTimeout ELSE MsgMaxAttempts
ExitMessage(a) == IF a >= max_attempts THEN MsgMaxAttempts ELSE MsgTimeout

\* lines 204-218: the counters after one processed frame
ConsecutiveAfter_keep(o, c) == IF o = "MATCH" THEN c + 1 ELSE IF o = "MISMATCH" THEN 0 ELSE c
ConsecutiveAfter(o, c) == IF o = "MATCH" THEN c + 1 ELSE 0

AttemptsAfter_noface(o, a) == IF o = "MATCH" THEN a ELSE a + 1
AttemptsAfter_reset(o, a) == IF o = "MISMATCH" THEN a + 1 ELSE IF o = "MATCH" THEN 0 ELSE a
AttemptsAfter(o, a) == IF o = "MISMATCH" THEN a + 1 ELSE a

\* line 210: consecutive_matches >= required_matches
Accepts_early(c) == c >= required_matches - 1
Accepts_late(c) == c > required_matches
Accepts(c) == c >= required_matches

\* lines 167-186: a call of authenticate() up to the loop
Authenticate ==
    /\ state # "SAMPLING"
    /\ \E opened \in BOOLEAN :
        IF known_face_encodings = <<>>
        THEN /\ state' = "IDLE"
             /\ result' = [success |-> FALSE, message |-> MsgNoReference]
        ELSE IF ~opened
        THEN /\ state' = "IDLE"
             /\ result' = [success |-> FALSE, message |-> MsgNoCamera]
        ELSE /\ state' = "SAMPLING"
             /\ result' = NoResult
    /\ attempts' = 0
    /\ consecutive_matches' = 0
    /\ elapsed' = 0
    /\ ret' = TRUE
    /\ trace' = <<>>
    /\ UNCHANGED known_face_encodings
    /\ UNCHANGED <<vaultVars, appVars, deleteVars, enrollVars, matchVars>>

\* the wall clock moves on while the loop runs
ClockTick ==
    /\ state = "SAMPLING"
    /\ elapsed < MaxElapsed
    /\ elapsed' = elapsed + 1
    /\ UNCHANGED <<known_face_encodings, state, attempts, consecutive_matches,
                   ret, trace, result>>
    /\ UNCHANGED <<vaultVars, appVars, deleteVars, enrollVars, matchVars>>

\* lines 189-192, 223-228: the iteration that finds the time used up
TimeoutBreak ==
    /\ state = "SAMPLING"
    /\ attempts < max_attempts
    /\ TimedOut(elapsed)
    /\ state' = "REJECTED"
    /\ result' = [success |-> FALSE, message |-> ExitMessage(attempts)]
    /\ UNCHANGED <<known_face_encodings, attempts, consecutive_matches,
                   elapsed, ret, trace>>
    /\ UNCHANGED <<vaultVars, appVars, deleteVars, enrollVars, matchVars>>

\* lines 189-196: the iteration whose cap.read() fails
ReadFail ==
    /\ state = "SAMPLING"
    /\ attempts < max_attempts
    /\ ~TimedOut(elapsed)
    /\ ret' = FALSE
    /\ UNCHANGED <<known_face_encodings, state, attempts, consecutive_matches,
                   elapsed, trace, result>>
    /\ UNCHANGED <<vaultVars, appVars, deleteVars, enrollVars, matchVars>>

\* lines 189-228: the iteration that processes the frame with these faces,
\* and the return that follows it when the loop ends there
FrameTick(face_encodings) ==
    /\ state = "SAMPLING"
    /\ attempts < max_attempts
    /\ ~TimedOut(elapsed)
    /\ Len(trace) < MaxTrace
    /\ LET o == FrameOutcome(known_face_encodings, face_encodings)
           c == ConsecutiveAfter(o, consecutive_matches)
           a == AttemptsAfter(o, attempts)
       IN /\ ret' = TRUE
          /\ trace' = Append(trace, o)
          /\ consecutive_matches' = c
          /\ attempts' = a
          /\ IF o = "MATCH" /\ Accepts(c)
             THEN /\ state' = "ACCEPTED"
                  /\ result' = [success |-> TRUE, message |-> MsgSuccess]
             ELSE IF ~(a < max_attempts)
             THEN /\ state' = "REJECTED"
                  /\ result' = [success |-> FALSE, message |-> ExitMessage(a)]
             ELSE UNCHANGED <<state, result>>
    /\ UNCHANGED <<known_face_encodings, elapsed>>
    /\ UNCHANGED <<vaultVars, appVars, deleteVars, enrollVars, matchVars>>

Frame == \E face_encodings \in Frames : FrameTick(face_encodings)

(***************************************************************************)
(* VaultEncryptor: keys, records, Fernet tokens                            *)
(***************************************************************************)
Keys == 1..MaxKeys

\* the fields a stored dict can have, in the order json.dumps writes them
FieldOrder == <<"notes", "last_modified">>
Notes == {"", "n1"}
Stamps == {"", "t1", "t2"}

\* the dicts the application stores
Records == {[notes |-> n, last_modified |-> t] : n \in Notes, t \in (Stamps \ {""})}
EmptyRecord == [notes |-> "", last_modified |-> ""]

\* json.dumps(data, indent=2): the text as the sequence of its members
RECURSIVE Members(_, _, _)
Members(data, order, i) ==
    IF i > Len(order) THEN <<>>
    ELSE IF order[i] \in DOMAIN data
    THEN <<<<order[i], data[order[i]]>>>> \o Members(data, order, i + 1)
    ELSE Members(data, order, i + 1)

json_dumps_notes_only(data) == Members(data, <<"notes">>, 1)
json_dumps(data) == Members(data, FieldOrder, 1)

\* json.loads(text): the dict with the members of the text
\* (a repeated member name keeps its last value)
json_loads(text) ==
    LET last(f) == CHOOSE i \in DOMAIN text :
                      /\ text[i][1] = f
                      /\ \A j \in DOMAIN text : text[j][1] = f => j <= i
    IN [f \in {text[i][1] : i \in DOMAIN text} |-> text[last(f)][2]]

\* a Fernet token: the key that signed and encrypted it, the plaintext, and
\* whether the bytes are still the ones encrypt produced
Token(k, text) == [key |-> k, text |-> text, intact |-> TRUE]
EmptyBytes == [key |-> 0, text |-> <<>>, intact |-> FALSE]

File(bytes) == [exists |-> TRUE, bytes |-> bytes]

\* lines 132-153: encrypt_data under the key self.cipher holds
encrypt_data(k, data) == Token(k, json_dumps(data))

\* Fernet.decrypt: the HMAC and the key must fit, otherwise InvalidToken
TokenValid_anykey(k, bytes) == bytes.intact
TokenValid(k, bytes) == bytes.intact /\ bytes.key = k

\* lines 155-177: decrypt_data; raised when Fernet or json raise
decrypt_data(k, bytes) ==
    IF TokenValid(k, bytes)
    THEN [raised |-> FALSE, data |-> json_loads(bytes.text)]
    ELSE [raised |-> TRUE, data |-> EmptyRecord]

\* what a call left behind for its caller
Call(op, present, decrypted, raised, returned) ==
    [op |-> op, present |-> present, decrypted |-> decrypted,
     raised |-> raised, returned |-> returned]
NoCall == Call("none", FALSE, FALSE, "", EmptyRecord)

\* a call that returns True or False
BoolCall(op, value) ==
    [op |-> op, present |-> FALSE, decrypted |-> FALSE, raised |-> "",
     returned |-> EmptyRecord, value |-> value]

\* change_encryption_key: where the call stands, its locals new_key and
\* existing_data, and what the vault was when it was called; kept until the
\* next call on the object
NoRotation ==
    [pc |-> "idle", new_key |-> 0, existing_data |-> EmptyRecord,
     old_cipher |-> 0, old_key_file |-> NoFile, old_data_file |-> NoFile,
     backed_up |-> FALSE]

\* lines 203-229: load_data returns; nothing it does raises to the caller
load_data_absent_fails(file, k) ==
    IF ~file.exists
    THEN Call("load_data", FALSE, FALSE, "IOFailure", EmptyRecord)
    ELSE LET d == decrypt_data(k, file.bytes)
         IN IF d.raised
            THEN Call("load_data", TRUE, FALSE, "", EmptyRecord)
            ELSE Call("load_data", TRUE, TRUE, "", d.data)

load_data(file, k) ==
    IF ~file.exists
    THEN Call("load_data", FALSE, FALSE, "", EmptyRecord)
    ELSE LET d == decrypt_data(k, file.bytes)
         IN IF d.raised
            THEN Call("load_data", TRUE, FALSE, "", EmptyRecord)
            ELSE Call("load_data", TRUE, TRUE, "", d.data)

\* lines 179-201: the data file after save_data, by how far the write got
IOs == {"ok", "open_fails", "write_fails"}

save_data_file_merge(file, k, data, io) ==
    IF io = "open_fails" THEN file
    ELSE IF io = "write_fails" THEN File(EmptyBytes)
    ELSE IF file.exists /\ TokenValid(k, file.bytes)
    THEN File(encrypt_data(k, data @@ json_loads(file.bytes.text)))
    ELSE File(encrypt_data(k, data))

save_data_file(file, k, data, io) ==
    IF io = "open_fails" THEN file
    ELSE IF io = "write_fails" THEN File(EmptyBytes)
    ELSE File(encrypt_data(k, data))

save_data_call(file, data, io) ==
    Call("save_data", file.exists, FALSE, IF io = "ok" THEN "" ELSE "IOFailure", data)

\* lines 92-111: load_key returns the bytes of the key file as they are, and
\* None both when there is no key file and when reading it raises
NoKey == [none |-> TRUE, key |-> 0]

load_key(file, io) ==
    IF ~file.exists THEN NoKey
    ELSE IF io = "read_fails" THEN NoKey
    ELSE [none |-> FALSE, key |-> file.bytes]

\* the constructor's call record: what load_key returned and whether
\* load_or_generate_key raised
InitCall(present, loaded, raised) ==
    [op |-> "__init__", present |-> present, decrypted |-> FALSE,
     raised |-> raised, returned |-> EmptyRecord, loaded |-> loaded]

\* lines 24-37, 113-130: the constructor; when load_key returns None it
\* generates a key k and saves it over the key file, otherwise it hands the
\* loaded bytes to Fernet, which raises when they are no key
VaultInit(k, io) ==
    /\ cipher = 0
    /\ LET loaded == load_key(key_file, io)
       IN IF loaded.none
          THEN IF io = "write_fails"
               THEN /\ key_file' = File(0)
                    /\ UNCHANGED cipher
                    /\ last_call' = InitCall(data_file.exists, loaded, "IOFailure")
               ELSE /\ key_file' = File(k)
                    /\ cipher' = k
                    /\ last_call' = InitCall(data_file.exists, loaded, "")
          ELSE IF loaded.key \in Keys
          THEN /\ cipher' = loaded.key
               /\ UNCHANGED key_file
               /\ last_call' = InitCall(data_file.exists, loaded, "")
          ELSE /\ UNCHANGED <<cipher, key_file>>
               /\ last_call' = InitCall(data_file.exists, loaded, "ValueError")
    /\ rotation' = NoRotation
    /\ UNCHANGED <<data_file, backups>>
    /\ UNCHANGED <<authVars, appVars, deleteVars, enrollVars, matchVars>>

SaveData(data, io) ==
    /\ cipher \in Keys
    /\ rotation.pc = "idle"
    /\ data_file' = save_data_file(data_file, cipher, data, io)
    /\ last_call' = save_data_call(data_file, data, io)
    /\ rotation' = NoRotation
    /\ UNCHANGED <<key_file, cipher, backups>>
    /\ UNCHANGED <<authVars, appVars, deleteVars, enrollVars, matchVars>>

LoadData ==
    /\ cipher \in Keys
    /\ rotation.pc = "idle"
    /\ last_call' = load_data(data_file, cipher)
    /\ rotation' = NoRotation
    /\ UNCHANGED <<key_file, data_file, cipher, backups>>
    /\ UNCHANGED <<authVars, appVars, deleteVars, enrollVars, matchVars>>

\* the environment: the bytes of the data file are damaged on disk, or
\* replaced by a token made under another key
Tamper(kind, k) ==
    /\ rotation.pc = "idle"
    /\ data_file.exists
    /\ data_file.bytes.intact
    /\ IF kind = "corrupt"
       THEN data_file' = File([data_file.bytes EXCEPT !.intact = FALSE])
       ELSE /\ k # data_file.bytes.key
            /\ data_file' = File([data_file.bytes EXCEPT !.key = k])
    /\ last_call' = NoCall
    /\ rotation' = NoRotation
    /\ UNCHANGED <<key_file, cipher, backups>>
    /\ UNCHANGED <<authVars, appVars, deleteVars, enrollVars, matchVars>>

(***************************************************************************)
(* VaultEncryptor: backup, restore, integrity check                        *)
(***************************************************************************)
\* lines 231-260: the backup files after backup_data; shutil.copy2 can fail
\* before it creates the copy or while it writes it
backup_files_always(file, bks, io) ==
    bks \cup {IF file.exists /\ io = "ok" THEN file.bytes ELSE EmptyBytes}

backup_files(file, bks, io) ==
    IF ~file.exists \/ io = "open_fails" THEN bks
    ELSE IF io = "write_fails" THEN bks \cup {EmptyBytes}
    ELSE bks \cup {file.bytes}

backup_value(file, io) == file.exists /\ io = "ok"

BackupData(io) ==
    /\ cipher \in Keys
    /\ rotation.pc = "idle"
    /\ Cardinality(backup_files(data_file, backups, io)) <= MaxBackups
    /\ backups' = backup_files(data_file, backups, io)
    /\ last_call' = BoolCall("backup_data", backup_value(data_file, io))
    /\ rotation' = NoRotation
    /\ UNCHANGED <<key_file, data_file, cipher>>
    /\ UNCHANGED <<authVars, appVars, deleteVars, enrollVars, matchVars>>

\* lines 272-282: the backup exists and decrypt_data does not raise on it
restore_accepts_unchecked(backup, k) == backup.exists
restore_accepts(backup, k) == backup.exists /\ ~decrypt_data(k, backup.bytes).raised

\* lines 285-286: the data file after shutil.copy2(backup_file, self.data_file)
restore_file_keep(file, backup, k, io) == file
restore_file(file, backup, k, io) ==
    IF ~restore_accepts(backup, k) \/ io = "open_fails" THEN file
    ELSE IF io = "write_fails" THEN File(EmptyBytes)
    ELSE backup

\* lines 262-293: restore_data(backup_file); the call record keeps the
\* argument, how the copy went, and the data file that was there before
RestoreData(backup, io) ==
    /\ cipher \in Keys
    /\ rotation.pc = "idle"
    /\ data_file' = restore_file(data_file, backup, cipher, io)
    /\ last_call' = [op |-> "restore_data", arg |-> backup, io |-> io,
                     replaced |-> data_file,
                     value |-> restore_accepts(backup, cipher) /\ io = "ok"]
    /\ rotation' = NoRotation
    /\ UNCHANGED <<key_file, cipher, backups>>
    /\ UNCHANGED <<authVars, appVars, deleteVars, enrollVars, matchVars>>

\* lines 352-355: the required fields
RequiredFields == {"notes", "last_modified"}

\* lines 333-362: verify_data_integrity, which reads the file with load_data
verify_data_integrity(file, k) ==
    IF ~file.exists THEN TRUE
    ELSE LET data == load_data(file, k).returned
         IN \A field \in RequiredFields : field \in DOMAIN data

VerifyDataIntegrity ==
    /\ cipher \in Keys
    /\ rotation.pc = "idle"
    /\ last_call' = BoolCall("verify_data_integrity", verify_data_integrity(data_file, cipher))
    /\ rotation' = NoRotation
    /\ UNCHANGED <<key_file, data_file, cipher, backups>>
    /\ UNCHANGED <<authVars, appVars, deleteVars, enrollVars, matchVars>>

(***************************************************************************)
(* VaultEncryptor.change_encryption_key, one step per write to the disk    *)
(***************************************************************************)
InProgress == Call("in_progress", FALSE, FALSE, "", EmptyRecord)

\* line 327 / lines 329-331: the call returns
RotReturn(value) ==
    /\ rotation' = [rotation EXCEPT !.pc = "idle"]
    /\ last_call' = BoolCall("change_encryption_key", value)

\* lines 305-318: load_data, backup_data, the new key, self.cipher = Fernet(new_key);
\* new_key 0 stands for bytes that are no Fernet key, on which Fernet raises;
\* a key from Fernet.generate_key differs from the key in use
RotStart(new_key, io) ==
    /\ cipher \in Keys
    /\ new_key # cipher
    /\ rotation.pc = "idle"
    /\ Cardinality(backup_files(data_file, backups, io)) <= MaxBackups
    /\ backups' = backup_files(data_file, backups, io)
    /\ LET started == [pc |-> "save_key", new_key |-> new_key,
                       existing_data |-> load_data(data_file, cipher).returned,
                       old_cipher |-> cipher, old_key_file |-> key_file,
                       old_data_file |-> data_file,
                       backed_up |-> backup_value(data_file, io)]
       IN IF new_key \in Keys
          THEN /\ cipher' = new_key
               /\ rotation' = started
               /\ last_call' = InProgress
          ELSE /\ UNCHANGED cipher
               /\ rotation' = [started EXCEPT !.pc = "idle"]
               /\ last_call' = BoolCall("change_encryption_key", FALSE)
    /\ UNCHANGED <<key_file, data_file>>
    /\ UNCHANGED <<authVars, appVars, deleteVars, enrollVars, matchVars>>

\* lines 321, 80: save_key opens the key file for writing, which empties it
RotKeyOpen(io) ==
    /\ rotation.pc = "save_key"
    /\ IF io = "open_fails"
       THEN /\ RotReturn(FALSE)
            /\ UNCHANGED key_file
       ELSE /\ key_file' = File(0)
            /\ rotation' = [rotation EXCEPT !.pc = "key_write"]
            /\ last_call' = InProgress
    /\ UNCHANGED <<data_file, cipher, backups>>
    /\ UNCHANGED <<authVars, appVars, deleteVars, enrollVars, matchVars>>

\* lines 81-84: save_key writes the key
RotKeyWrite(io) ==
    /\ rotation.pc = "key_write"
    /\ IF io = "write_fails"
       THEN /\ RotReturn(FALSE)
            /\ UNCHANGED key_file
       ELSE /\ key_file' = File(rotation.new_key)
            /\ rotation' = [rotation EXCEPT !.pc = "save_data"]
            /\ last_call' = InProgress
    /\ UNCHANGED <<data_file, cipher, backups>>
    /\ UNCHANGED <<authVars, appVars, deleteVars, enrollVars, matchVars>>

\* lines 324, 188-191: save_data encrypts and opens the data file for writing
RotDataOpen(io) ==
    /\ rotation.pc = "save_data"
    /\ IF io = "open_fails"
       THEN /\ RotReturn(FALSE)
            /\ UNCHANGED data_file
       ELSE /\ data_file' = File(EmptyBytes)
            /\ rotation' = [rotation EXCEPT !.pc = "data_write"]
            /\ last_call' = InProgress
    /\ UNCHANGED <<key_file, cipher, backups>>
    /\ UNCHANGED <<authVars, appVars, deleteVars, enrollVars, matchVars>>

\* lines 192-195, 326-327: save_data writes the token; the call returns True
RotDataWrite(io) ==
    /\ rotation.pc = "data_write"
    /\ IF io = "write_fails"
       THEN /\ RotReturn(FALSE)
            /\ UNCHANGED data_file
       ELSE /\ data_file' = File(encrypt_data(cipher, rotation.existing_data))
            /\ RotReturn(TRUE)
    /\ UNCHANGED <<key_file, cipher, backups>>
    /\ UNCHANGED <<authVars, appVars, deleteVars, enrollVars, matchVars>>

\* the process dies inside change_encryption_key: the object is gone, the
\* files stay as they are
Crash ==
    /\ rotation.pc # "idle"
    /\ cipher' = 0
    /\ rotation' = [rotation EXCEPT !.pc = "idle"]
    /\ last_call' = Call("crash", FALSE, FALSE, "", EmptyRecord)
    /\ UNCHANGED <<key_file, data_file, backups>>
    /\ UNCHANGED <<authVars, appVars, deleteVars, enrollVars, matchVars>>

(***************************************************************************)
(* VaultEncryptor.secure_delete_file, one step per system call             *)
(***************************************************************************)
\* a byte of the file is "d" (what was stored) or a value os.urandom gave
RandomBytes == {"r1", "r2"}
StoredFiles == {File([j \in 1..n |-> "d"]) : n \in 0..MaxSize}

\* the call: where it stands, file_size, the loop index i, the writes and
\* fsyncs done so far, and the value returned ("none" while it runs)
NoDeletion ==
    [pc |-> "idle", file_size |-> 0, i |-> 0, log |-> <<>>, returned |-> "none"]

DeleteReturn(value) ==
    deletion' = [deletion EXCEPT !.pc = "idle", !.returned = value]

\* line 406: for _ in range(3)
LoopDone_early(i) == i >= passes - 1
LoopDone(i) == i >= passes

\* lines 398-405: nothing to do for an absent file; otherwise getsize and
\* open(file_path, 'r+b')
SecureDeleteOpen(io) ==
    /\ deletion.pc = "idle"
    /\ IF ~target.exists
       THEN deletion' = [NoDeletion EXCEPT !.returned = "true"]
       ELSE IF io = "open_fails"
       THEN deletion' = [NoDeletion EXCEPT !.returned = "false"]
       ELSE deletion' = [NoDeletion EXCEPT !.pc = "write",
                                           !.file_size = Len(target.bytes)]
    /\ UNCHANGED target
    /\ UNCHANGED <<authVars, vaultVars, appVars, enrollVars, matchVars>>

\* lines 407-408: f.seek(0); f.write(os.urandom(file_size)); a write that
\* raises has written the first k bytes
OverwritePass(io, rnd, k) ==
    /\ deletion.pc = "write"
    /\ IF io = "ok"
       THEN /\ target' = File([j \in 1..deletion.file_size |-> rnd])
            /\ deletion' = [deletion EXCEPT !.pc = "flush",
                                            !.log = Append(@, "write")]
       ELSE /\ k < deletion.file_size \/ k = 0
            /\ target' = File([j \in 1..deletion.file_size |->
                                  IF j <= k THEN rnd ELSE target.bytes[j]])
            /\ DeleteReturn("false")
    /\ UNCHANGED <<authVars, vaultVars, appVars, enrollVars, matchVars>>

\* lines 409-410: f.flush(); os.fsync(f.fileno()), then the next pass or the
\* end of the loop
FlushPass(io) ==
    /\ deletion.pc = "flush"
    /\ IF io = "ok"
       THEN deletion' = [deletion EXCEPT
                            !.pc = IF LoopDone(deletion.i + 1) THEN "remove" ELSE "write",
                            !.i = @ + 1,
                            !.log = Append(@, "fsync")]
       ELSE DeleteReturn("false")
    /\ UNCHANGED target
    /\ UNCHANGED <<authVars, vaultVars, appVars, enrollVars, matchVars>>

\* lines 413-416: os.remove(file_path), return True
RemoveFile(io) ==
    /\ deletion.pc = "remove"
    /\ IF io = "ok"
       THEN /\ target' = NoFile
            /\ DeleteReturn("true")
       ELSE /\ UNCHANGED target
            /\ DeleteReturn("false")
    /\ UNCHANGED <<authVars, vaultVars, appVars, enrollVars, matchVars>>

(***************************************************************************)
(* FaceAuthenticator: enrollment                                           *)
(***************************************************************************)
\* the faces face_recognition finds in an image file; <<>> when it finds none
ImageFaces == SeqsUpTo(Embeddings, MaxFaces)
Images == {NoFile} \cup {File(f) : f \in ImageFaces}

\* an enrollment call: whether create_face_encodings ran, whether it raised
\* for want of a face, and whether the caller got an exception or False
Enrollment(op, attempted, failed, told) ==
    [op |-> op, attempted |-> attempted, failed |-> failed, told |-> told]
NoEnrollment == Enrollment("none", FALSE, FALSE, FALSE)

\* lines 73-74: if not face_locations: raise
NoFaceFound(image) == image.bytes = <<>>

\* lines 22-60: __init__ and load_or_create_encodings; the exception of
\* create_face_encodings is caught at line 58 and __init__ returns
Construct ==
    /\ IF encodings_file.exists
       THEN /\ known_face_encodings' = encodings_file.bytes
            /\ enrollment' = Enrollment("__init__", FALSE, FALSE, FALSE)
            /\ UNCHANGED encodings_file
       ELSE IF ~reference_image.exists
       THEN /\ known_face_encodings' = <<>>
            /\ enrollment' = Enrollment("__init__", FALSE, FALSE, FALSE)
            /\ UNCHANGED encodings_file
       ELSE IF NoFaceFound(reference_image)
       THEN /\ known_face_encodings' = <<>>
            /\ enrollment' = Enrollment("__init__", TRUE, TRUE, FALSE)
            /\ UNCHANGED encodings_file
       ELSE /\ known_face_encodings' = reference_image.bytes
            /\ encodings_file' = File(reference_image.bytes)
            /\ enrollment' = Enrollment("__init__", TRUE, FALSE, FALSE)
    /\ UNCHANGED reference_image
    /\ UNCHANGED <<state, attempts, consecutive_matches, elapsed, ret, trace, result>>
    /\ UNCHANGED <<vaultVars, appVars, deleteVars, matchVars>>

\* lines 234-262: the old image is renamed away, the new one copied in
\* (copy2 raises when new_image_path has no file), create_face_encodings run
update_reference_face(new_image) ==
    /\ reference_image' = new_image
    /\ IF ~new_image.exists
       THEN /\ enrollment' = Enrollment("update_reference_face", FALSE, FALSE, TRUE)
            /\ UNCHANGED <<known_face_encodings, encodings_file>>
       ELSE IF NoFaceFound(new_image)
       THEN /\ enrollment' = Enrollment("update_reference_face", TRUE, TRUE, TRUE)
            /\ UNCHANGED <<known_face_encodings, encodings_file>>
       ELSE /\ known_face_encodings' = new_image.bytes
            /\ encodings_file' = File(new_image.bytes)
            /\ enrollment' = Enrollment("update_reference_face", TRUE, FALSE, FALSE)
    /\ UNCHANGED <<state, attempts, consecutive_matches, elapsed, ret, trace, result>>
    /\ UNCHANGED <<vaultVars, appVars, deleteVars, matchVars>>

(***************************************************************************)
(* FaceAuthenticator.verify_face as a call of its own                      *)
(***************************************************************************)
NoVerification == [op |-> "none", face_encodings |-> <<>>, value |-> FALSE]

\* lines 127-158: verify_face(face_encodings); None and [] are both <<>>
VerifyFace(face_encodings) ==
    /\ verified' = [op |-> "verify_face", face_encodings |-> face_encodings,
                    value |-> verify_face(known_face_encodings, face_encodings)]
    /\ UNCHANGED <<authVars, vaultVars, appVars, deleteVars, enrollVars>>

(***************************************************************************)
(* SpecAuth                                                               *)
(***************************************************************************)
ReferenceSets == {<<>>, <<<<0, 0>>>>, <<<<0, 0>>, <<tolerance + 1, 1>>>>}

InitAuthVars ==
    /\ state = "IDLE"
    /\ attempts = 0
    /\ consecutive_matches = 0
    /\ elapsed = 0
    /\ ret = TRUE
    /\ trace = <<>>
    /\ result = NoResult

InitVaultIdle ==
    /\ key_file = NoFile
    /\ data_file = NoFile
    /\ cipher = 0
    /\ last_call = NoCall
    /\ backups = {}
    /\ rotation = NoRotation

InitDeleteIdle ==
    /\ target = NoFile
    /\ deletion = NoDeletion

InitEnrollIdle ==
    /\ encodings_file = NoFile
    /\ reference_image = NoFile
    /\ enrollment = NoEnrollment

InitMatchIdle ==
    verified = NoVerification

InitAppIdle ==
    /\ is_authenticated = FALSE
    /\ screen = "login"
    /\ auth_button = "normal"
    /\ user_face = TRUE
    /\ auth_threads = 0
    /\ setup_threads = 0
    /\ after_queue = <<>>
    /\ vault_data = [notes |-> "", last_modified |-> ""]
    /\ notes_text = ""
    /\ handled = NoResult

InitAuth ==
    /\ known_face_encodings \in ReferenceSets
    /\ InitAuthVars
    /\ InitVaultIdle
    /\ InitAppIdle
    /\ InitDeleteIdle
    /\ InitEnrollIdle
    /\ InitMatchIdle

NextAuth ==
    \/ Authenticate
    \/ ClockTick
    \/ TimeoutBreak
    \/ ReadFail
    \/ Frame

SpecAuth == InitAuth /\ [][NextAuth]_vars

\* the fairness the scheduling gives: the wall clock advances, and the loop's
\* thread gets to run the iteration that sees the time used up
SpecAuthLive == SpecAuth /\ WF_vars(ClockTick) /\ WF_vars(TimeoutBreak)

(***************************************************************************)
(* Properties of authenticate()                                            *)
(***************************************************************************)
\* the step is a processed frame with outcome o
IsTick(o) == trace' = Append(trace, o)

Mismatches(t) == Cardinality({i \in DOMAIN t : t[i] = "MISMATCH"})

MatchTickEffect ==
    IsTick("MATCH") =>
        /\ consecutive_matches' = consecutive_matches + 1
        /\ (state' = "ACCEPTED") <=> (consecutive_matches' = required_matches)

\* C1: every MATCH tick adds exactly one to consecutive_matches, the session
\* is ACCEPTED exactly on the tick on which the counter reaches
\* required_matches, and MATCH,MATCH,MATCH from a fresh session is ACCEPTED.
C1_MatchAccepts ==
    /\ [][MatchTickEffect]_vars
    /\ [](trace = <<"MATCH", "MATCH", "MATCH">> => state = "ACCEPTED")

C1_Witness ==
    /\ state = "ACCEPTED"
    /\ trace = <<"MATCH", "MATCH", "MATCH">>
    /\ consecutive_matches = required_matches

\* C2: a session is ACCEPTED only if its last required_matches ticks were
\* all MATCH; one matching frame, or matches with a MISMATCH or NO_FACE
\* between them, never accept.
C2_OnlyConsecutiveMatches ==
    state = "ACCEPTED" =>
        /\ Len(trace) >= required_matches
        /\ \A i \in (Len(trace) - required_matches + 1)..Len(trace) : trace[i] = "MATCH"

C2_Witness ==
    /\ state = "ACCEPTED"
    /\ Len(trace) = required_matches + 3
    /\ trace[1] = "MATCH"
    /\ trace[2] = "MATCH"
    /\ trace[3] = "NO_FACE"

MismatchTickEffect ==
    IsTick("MISMATCH") =>
        /\ consecutive_matches' = 0
        /\ attempts' = attempts + 1
        /\ (state' = "REJECTED" /\ result'.message = MsgMaxAttempts)
              <=> (attempts' = max_attempts)
        /\ state' \in {"SAMPLING", "REJECTED"}

\* C3: every MISMATCH tick zeroes consecutive_matches and adds exactly one
\* to attempts; the session is REJECTED(max attempts exceeded) as soon as
\* attempts reaches max_attempts; attempts counts the mismatches only, and
\* three MISMATCH ticks from a fresh session are rejected with that reason.
C3_MismatchRejects ==
    /\ [][MismatchTickEffect]_vars
    /\ [](state # "IDLE" => attempts = Mismatches(trace))
    /\ [](trace = <<"MISMATCH", "MISMATCH", "MISMATCH">> =>
             state = "REJECTED" /\ result = [success |-> FALSE, message |-> MsgMaxAttempts])

C3_Witness ==
    /\ state = "REJECTED"
    /\ result.message = MsgMaxAttempts
    /\ trace = <<"MISMATCH", "MISMATCH", "MISMATCH">>

NoFaceTickEffect ==
    IsTick("NO_FACE") =>
        /\ consecutive_matches' = 0
        /\ attempts' = attempts
        /\ state' = "SAMPLING"

\* C4: a NO_FACE tick zeroes consecutive_matches and leaves attempts alone;
\* NO_FACE ticks alone never end in REJECTED(max attempts exceeded).
C4_NoFaceNoPenalty ==
    /\ [][NoFaceTickEffect]_vars
    /\ []((\A i \in DOMAIN trace : trace[i] = "NO_FACE") =>
             ~(state = "REJECTED" /\ result.message = MsgMaxAttempts))

C4_Witness ==
    /\ Len(trace) > max_attempts
    /\ \A i \in DOMAIN trace : trace[i] = "NO_FACE"
    /\ attempts = 0
    /\ consecutive_matches = 0
    /\ state = "SAMPLING"

\* a step of the loop (not of the clock) taken from a sampling session
LoopStep == state = "SAMPLING" /\ elapsed' = elapsed

\* C5: a tick at which more than timeout_seconds have elapsed rejects with
\* reason timeout whatever the frame would have been; no session is ACCEPTED
\* on such a tick; elapsed time equal to timeout_seconds does not reject.
C5_TimeoutStrict ==
    /\ [][(LoopStep /\ elapsed > timeout_seconds) =>
             (state' = "REJECTED" /\ result'.message = MsgTimeout)]_vars
    /\ [][(LoopStep /\ state' = "ACCEPTED") => elapsed <= timeout_seconds]_vars
    /\ [][(LoopStep /\ elapsed = timeout_seconds) => result'.message # MsgTimeout]_vars

C5_Witness ==
    /\ state = "REJECTED"
    /\ result.message = MsgTimeout
    /\ elapsed = timeout_seconds + 1
    /\ consecutive_matches = required_matches - 1

\* C6: every sampling session reaches ACCEPTED or REJECTED when the clock
\* keeps advancing, and one in which no frame ever arrived ends in
\* REJECTED(timeout).
C6_Terminates ==
    /\ (state = "SAMPLING") ~> (state \in Terminal)
    /\ []((state \in Terminal /\ trace = <<>>) =>
             (state = "REJECTED" /\ result.message = MsgTimeout))

C6_Witness ==
    /\ state = "REJECTED"
    /\ result.message = MsgTimeout
    /\ trace = <<>>
    /\ ret = FALSE

\* C7: MATCH,MATCH,MISMATCH,MATCH,MATCH,MATCH from a fresh session is
\* ACCEPTED with attempts = 1; a MATCH tick never changes attempts.
C7_IndependentCounters ==
    /\ [](trace = <<"MATCH", "MATCH", "MISMATCH", "MATCH", "MATCH", "MATCH">> =>
             (state = "ACCEPTED" /\ attempts = 1))
    /\ [][IsTick("MATCH") => attempts' = attempts]_vars

C7_Witness ==
    /\ trace = <<"MATCH", "MATCH", "MISMATCH", "MATCH", "MATCH", "MATCH">>
    /\ state = "ACCEPTED"
    /\ attempts = 1

\* C8: a failed session carries exactly one reason: max attempts exceeded
\* iff attempts reached max_attempts, timeout iff the time ran out with
\* attempts below max_attempts; after the return nothing of the session
\* changes until authenticate() is called again.
C8_ReasonTags ==
    /\ [](state = "REJECTED" =>
             /\ result.success = FALSE
             /\ result.message \in {MsgMaxAttempts, MsgTimeout}
             /\ (result.message = MsgMaxAttempts) <=> (attempts = max_attempts)
             /\ (result.message = MsgTimeout) <=>
                    (attempts < max_attempts /\ elapsed > timeout_seconds))
    /\ [][(state \in Terminal /\ ~Authenticate) =>
             UNCHANGED <<state, attempts, consecutive_matches, trace, result>>]_vars

C8_Witness ==
    /\ state = "REJECTED"
    /\ result.message = MsgTimeout
    /\ attempts = max_attempts - 1

(***************************************************************************)
(* SpecVault                                                               *)
(***************************************************************************)
InitVault ==
    /\ known_face_encodings = <<>>
    /\ InitAuthVars
    /\ InitAppIdle
    /\ InitDeleteIdle
    /\ InitEnrollIdle
    /\ InitMatchIdle
    /\ key_file \in {NoFile} \cup {File(k) : k \in Keys}
    /\ data_file = NoFile
    /\ cipher = 0
    /\ last_call = NoCall
    /\ backups = {}
    /\ rotation = NoRotation

\* the dicts handed to save_data: the application's, and one without a stamp
VaultDicts == {[notes |-> "n1", last_modified |-> "t1"], [notes |-> "n1"]}

\* the paths handed to restore_data: a backup file, or a path with no file
BackupPaths == {NoFile} \cup {File(b) : b \in backups}

NextVault ==
    \/ \E k \in Keys, io \in {"ok", "read_fails", "write_fails"} : VaultInit(k, io)
    \/ \E data \in VaultDicts, io \in IOs : SaveData(data, io)
    \/ LoadData
    \/ \E kind \in {"corrupt", "foreign"}, k \in Keys : Tamper(kind, k)
    \/ \E io \in IOs : BackupData(io)
    \/ \E backup \in BackupPaths, io \in IOs : RestoreData(backup, io)
    \/ VerifyDataIntegrity
    \/ \E new_key \in 0..MaxKeys, io \in IOs : RotStart(new_key, io)
    \/ \E io \in {"ok", "open_fails"} : RotKeyOpen(io)
    \/ \E io \in {"ok", "write_fails"} : RotKeyWrite(io)
    \/ \E io \in {"ok", "open_fails"} : RotDataOpen(io)
    \/ \E io \in {"ok", "write_fails"} : RotDataWrite(io)
    \/ Crash

SpecVault == InitVault /\ [][NextVault]_vars

\* C10: when the data file is present and its decryption fails, load
\* surfaces IntegrityViolation and does not return the empty record.
C10_LoadSurfacesIntegrityViolation ==
    (last_call.op = "load_data" /\ last_call.present /\ ~last_call.decrypted) =>
        (last_call.raised = "IntegrityViolation" /\ last_call.returned # EmptyRecord)

(***************************************************************************)
(* Properties of change_encryption_key                                     *)
(***************************************************************************)
RotationReturned(value) ==
    /\ last_call.op = "change_encryption_key"
    /\ last_call.value = value

\* the token save_data writes for the rotated record
RotatedToken == encrypt_data(rotation.new_key, rotation.existing_data)

\* C11: in rotate_key the key file is written only after the record, encrypted
\* under the new key, has been written to the data file.
C11_KeyFileAfterDataFile ==
    [][(rotation.pc # "idle" /\ key_file' # key_file) =>
          data_file = File(RotatedToken)]_vars

\* before the rotation the key in the key file decrypted the data file
WasReadable ==
    /\ rotation.old_key_file.exists
    /\ rotation.old_data_file.exists
    /\ rotation.old_data_file.bytes.intact
    /\ rotation.old_data_file.bytes.key = rotation.old_key_file.bytes

\* the key now in the key file decrypts these bytes to the pre-rotation record
Recovers(bytes) ==
    /\ key_file.exists
    /\ bytes.intact
    /\ bytes.key = key_file.bytes
    /\ json_loads(bytes.text) = json_loads(rotation.old_data_file.bytes.text)

\* C12: after a crash at any step of rotate_key the key in the key file
\* decrypts the data file or the pre-rotation backup to the pre-rotation
\* record.
C12_CrashRecoverable ==
    (last_call.op = "crash" /\ WasReadable) =>
        \/ (data_file.exists /\ Recovers(data_file.bytes))
        \/ \E b \in backups : Recovers(b)

\* C13: when rotate_key fails, the key file and the cipher hold the old key
\* and load returns the pre-rotation record.
C13_FailedRotationKeepsOldKey ==
    RotationReturned(FALSE) =>
        /\ key_file = rotation.old_key_file
        /\ cipher = rotation.old_cipher
        /\ load_data(data_file, cipher).returned = rotation.existing_data

\* C14: when rotate_key reports success on a present data file, that file was
\* decryptable and load now returns the record it held; an undecryptable
\* file is never replaced by a re-encrypted empty record.
C14_RotationKeepsRecord ==
    (RotationReturned(TRUE) /\ rotation.old_data_file.exists) =>
        /\ rotation.old_data_file.bytes.intact
        /\ rotation.old_data_file.bytes.key = rotation.old_cipher
        /\ load_data(data_file, cipher).returned =
              json_loads(rotation.old_data_file.bytes.text)

\* C15: after a successful rotate_key on an existing data file the old key
\* does not decrypt the data file, and a backup exists that the old key
\* decrypts to the pre-rotation record.
C15_RotationSafety ==
    (RotationReturned(TRUE) /\ rotation.old_data_file.exists) =>
        /\ ~(data_file.bytes.intact /\ data_file.bytes.key = rotation.old_cipher)
        /\ \E b \in backups :
              /\ b = rotation.old_data_file.bytes
              /\ b.intact
              /\ b.key = rotation.old_cipher

(***************************************************************************)
(* Properties of restore, integrity check, load, encrypt and decrypt       *)
(***************************************************************************)
\* the backup handed to restore_data decrypts under the key in self.cipher
RestorableArg(call, k) ==
    /\ call.arg.exists
    /\ call.arg.bytes.intact
    /\ call.arg.bytes.key = k

\* C16: restore overwrites the data file only with a backup that decrypts
\* under the current key; a missing, undecryptable or foreign-key backup is
\* rejected and the data file, key file and cipher stay as they are.
C16_RestoreVerifiesFirst ==
    [][last_call'.op = "restore_data" =>
          /\ (data_file' # data_file => RestorableArg(last_call', cipher))
          /\ (last_call'.value => data_file' = last_call'.arg)
          /\ (~RestorableArg(last_call', cipher) =>
                 /\ last_call'.value = FALSE
                 /\ UNCHANGED <<data_file, key_file, cipher>>)]_vars

C16_Witness ==
    /\ last_call.op = "restore_data"
    /\ last_call.value = FALSE
    /\ last_call.arg.exists
    /\ last_call.arg.bytes.intact
    /\ last_call.arg.bytes.key # cipher
    /\ data_file.exists
    /\ data_file.bytes.intact
    /\ data_file.bytes.key = cipher

\* C17: verify_integrity is true iff the data file is absent, or decrypts
\* under the current key to a record with both required fields.
C17_VerifyIntegrityExact ==
    last_call.op = "verify_data_integrity" =>
        (last_call.value <=>
            \/ ~data_file.exists
            \/ /\ data_file.bytes.intact
               /\ data_file.bytes.key = cipher
               /\ RequiredFields \subseteq DOMAIN json_loads(data_file.bytes.text))

\* C18: load with no data file returns the empty record, does not fail, and
\* creates or changes no file.
C18_LoadAbsentIsEmpty ==
    [][(last_call'.op = "load_data" /\ ~data_file.exists) =>
          /\ last_call'.returned = EmptyRecord
          /\ last_call'.raised = ""
          /\ UNCHANGED <<data_file, key_file, backups>>]_vars

C18_Witness ==
    /\ last_call.op = "load_data"
    /\ ~last_call.present
    /\ last_call.returned = EmptyRecord
    /\ ~data_file.exists
    /\ key_file.exists

\* C19: decrypt(encrypt(r, k), k) = r: what save_data wrote from r decrypts
\* under the same key to r.
C19_RoundTrip ==
    (last_call.op = "save_data" /\ last_call.raised = "") =>
        /\ data_file.exists
        /\ decrypt_data(cipher, data_file.bytes) =
              [raised |-> FALSE, data |-> last_call.returned]

C19_Witness ==
    /\ last_call.op = "save_data"
    /\ last_call.raised = ""
    /\ last_call.returned = [notes |-> "n1", last_modified |-> "t1"]
    /\ cipher = MaxKeys

\* the byte strings on disk that decrypt_data can be given
Blobs == (IF data_file.exists THEN {data_file.bytes} ELSE {}) \cup backups

C24_LoadKeyDistinguishes ==
    [][last_call'.op = "__init__" =>
          /\ (last_call'.loaded.none => ~key_file.exists)
          /\ (~last_call'.loaded.none => last_call'.loaded.key \in Keys)]_vars

\* C31: constructing VaultEncryptor when a key file exists never changes the
\* key file: a key is generated and saved only when the key file is absent.
C31_InitKeepsKeyFile ==
    [][(last_call'.op = "__init__" /\ key_file.exists) =>
          key_file' = key_file]_vars

\* C21: save is a full replace: after save_data(r) succeeds, load under the
\* same key returns exactly r, whatever was stored before.
C21_SaveReplaces ==
    [][(last_call'.op = "save_data" /\ last_call'.raised = "") =>
          /\ cipher' = cipher
          /\ load_data(data_file', cipher').returned = last_call'.returned]_vars

C21_Witness ==
    /\ last_call.op = "save_data"
    /\ last_call.raised = ""
    /\ last_call.present
    /\ last_call.returned = [notes |-> "n1"]
    /\ DOMAIN load_data(data_file, cipher).returned = {"notes"}

\* C22: save writes the data file atomically: whatever happens during
\* save_data, the data file holds the complete previous bytes or the complete
\* new ciphertext.
C22_SaveAtomic ==
    [][last_call'.op = "save_data" =>
          \/ data_file' = data_file
          \/ data_file' = File(encrypt_data(cipher, last_call'.returned))]_vars

\* C23: save_key replaces the key file atomically: every content the key file
\* takes is a complete key.
C23_SaveKeyAtomic ==
    [][key_file' # key_file =>
          /\ key_file'.exists
          /\ key_file'.bytes \in Keys]_vars

(***************************************************************************)
(* Properties of backup_data                                               *)
(***************************************************************************)
\* C25: backup returns false and creates no file when there is no data file;
\* when it succeeds the new backup file holds the bytes of the data file; the
\* data file, the key file and the cipher are left as they are.
C25_BackupCopies ==
    [][last_call'.op = "backup_data" =>
          /\ (~data_file.exists => (~last_call'.value /\ backups' = backups))
          /\ (last_call'.value =>
                 /\ data_file.exists
                 /\ backups' = backups \cup {data_file.bytes})
          /\ UNCHANGED <<data_file, key_file, cipher>>]_vars

C25_Witness ==
    /\ last_call.op = "backup_data"
    /\ last_call.value
    /\ data_file.exists
    /\ data_file.bytes.intact
    /\ backups = {data_file.bytes}

(***************************************************************************)
(* Backup and restore together                                             *)
(***************************************************************************)
\* C30: a backup taken of record r under the current key survives later
\* saves: save_data changes no backup and no key file, and restoring the
\* backup then succeeds and load returns r, the key file unchanged.
C30_BackupRestoreRoundTrip ==
    [][/\ (last_call'.op \in {"save_data", "backup_data"} => UNCHANGED key_file)
       /\ (last_call'.op = "save_data" => UNCHANGED backups)
       /\ (/\ last_call'.op = "restore_data"
           /\ RestorableArg(last_call', cipher)
           /\ last_call'.io = "ok") =>
              /\ last_call'.value
              /\ load_data(data_file', cipher').returned =
                    json_loads(last_call'.arg.bytes.text)
              /\ UNCHANGED key_file]_vars

C30_Witness ==
    /\ last_call.op = "restore_data"
    /\ last_call.value
    /\ last_call.replaced.exists
    /\ last_call.replaced.bytes.intact
    /\ last_call.replaced.bytes.key = cipher
    /\ last_call.replaced.bytes.text # last_call.arg.bytes.text
    /\ load_data(data_file, cipher).returned = json_loads(last_call.arg.bytes.text)
    /\ key_file = File(cipher)

\* C29: during an authentication session 0 <= attempts <= max_attempts and
\* 0 <= consecutive_matches <= required_matches, and no frame is processed
\* once either counter has reached its limit.
C29_CountersBounded ==
    /\ [](attempts \in 0..max_attempts /\ consecutive_matches \in 0..required_matches)
    /\ [][(attempts = max_attempts \/ consecutive_matches = required_matches) =>
             Len(trace') # Len(trace) + 1]_vars

C29_Witness ==
    /\ state = "REJECTED"
    /\ attempts = max_attempts
    /\ consecutive_matches = 0
    /\ \E i \in DOMAIN trace : trace[i] = "MATCH"

(***************************************************************************)
(* SpecMatch: verify_face on every reference set and observation           *)
(***************************************************************************)
InitMatch ==
    /\ known_face_encodings \in Frames
    /\ InitAuthVars
    /\ InitVaultIdle
    /\ InitAppIdle
    /\ InitDeleteIdle
    /\ InitEnrollIdle
    /\ verified = NoVerification

NextMatch == \E face_encodings \in Frames : VerifyFace(face_encodings)

SpecMatch == InitMatch /\ [][NextMatch]_vars

\* the squared distances between a reference and an observed embedding
PairDistances(known, observed) ==
    {SqDistance(known[j], observed[i]) : j \in DOMAIN known, i \in DOMAIN observed}

\* C27: the match decision is true iff the reference set is non-empty, an
\* observation is present and some reference lies at distance <= tolerance
\* from an observed embedding; distance exactly tolerance matches.
C27_MatchDecision ==
    verified.op = "verify_face" =>
        LET ds == PairDistances(known_face_encodings, verified.face_encodings)
        IN /\ verified.value <=> (\E d2 \in ds : d2 <= tolerance * tolerance)
           /\ (\E d2 \in ds : d2 = tolerance * tolerance) => verified.value
           /\ (known_face_encodings = <<>> \/ verified.face_encodings = <<>>) =>
                 ~verified.value

C27_Witness ==
    /\ verified.op = "verify_face"
    /\ verified.value
    /\ known_face_encodings = <<<<0, 0>>>>
    /\ verified.face_encodings = <<<<tolerance, 0>>>>

(***************************************************************************)
(* SpecDelete: secure_delete_file on a stored file                         *)
(***************************************************************************)
InitDelete ==
    /\ known_face_encodings = <<>>
    /\ InitAuthVars
    /\ InitVaultIdle
    /\ InitAppIdle
    /\ InitEnrollIdle
    /\ InitMatchIdle
    /\ target \in {NoFile} \cup StoredFiles
    /\ deletion = NoDeletion

NextDelete ==
    \/ \E io \in {"ok", "open_fails"} : SecureDeleteOpen(io)
    \/ \E io \in {"ok", "write_fails"}, rnd \in RandomBytes, k \in 0..MaxSize :
          OverwritePass(io, rnd, k)
    \/ \E io \in {"ok", "sync_fails"} : FlushPass(io)
    \/ \E io \in {"ok", "remove_fails"} : RemoveFile(io)

SpecDelete == InitDelete /\ [][NextDelete]_vars

\* the writes and fsyncs in the log alternate, a write first
Alternates(log) ==
    \A j \in DOMAIN log : log[j] = IF j % 2 = 1 THEN "write" ELSE "fsync"

\* C26: secure_delete removes the file only after at least 3 full-length
\* overwrite passes, each followed by a flush to storage; a failed pass leaves
\* the file in place and reports failure; an absent file gives success with
\* nothing done.
C26_SecureDeleteOrder ==
    [][/\ (target.exists /\ ~target'.exists) =>
              /\ Len(deletion.log) >= 2 * 3
              /\ Alternates(deletion.log)
              /\ \A j \in DOMAIN target.bytes : target.bytes[j] \in RandomBytes
              /\ deletion'.returned = "true"
       /\ (deletion.pc \in {"write", "flush"} /\ deletion'.pc = "idle") =>
              /\ deletion'.returned = "false"
              /\ target'.exists
       /\ (deletion.pc = "idle" /\ ~target.exists) =>
              /\ deletion'.returned = "true"
              /\ deletion'.pc = "idle"
              /\ ~target'.exists]_vars

C26_Witness ==
    /\ deletion.returned = "true"
    /\ ~target.exists
    /\ Len(deletion.log) = 2 * passes
    /\ deletion.file_size = MaxSize

(***************************************************************************)
(* SpecEnroll: construction and update_reference_face                      *)
(***************************************************************************)
InitEnroll ==
    /\ known_face_encodings = <<>>
    /\ InitAuthVars
    /\ InitVaultIdle
    /\ InitAppIdle
    /\ InitDeleteIdle
    /\ InitMatchIdle
    /\ encodings_file = NoFile
    /\ reference_image \in Images
    /\ enrollment = NoEnrollment

NextEnroll ==
    \/ Construct
    \/ \E new_image \in Images : update_reference_face(new_image)

SpecEnroll == InitEnroll /\ [][NextEnroll]_vars

\* C28: an enrollment that finds no face in the image fails: the caller is
\* told, no encodings file is written, and the reference set is not replaced
\* by anything from that image.
C28_EnrollmentFailsLoudly ==
    [][enrollment'.failed =>
          /\ enrollment'.told
          /\ encodings_file' = encodings_file
          /\ known_face_encodings' \in {known_face_encodings, <<>>}]_vars

(***************************************************************************)
(* NeuroVaultApp                                                           *)
(***************************************************************************)
Result(success, message) == [success |-> success, message |-> message]

\* lines 160-232 of neurovault_face_auth.py: what authenticate() can return
\* to the worker thread that called it
AuthenticateResults(known) ==
    IF known = <<>>
    THEN {Result(FALSE, MsgNoReference)}
    ELSE {Result(FALSE, MsgNoCamera), Result(TRUE, MsgSuccess),
          Result(FALSE, MsgMaxAttempts), Result(FALSE, MsgTimeout)}

\* lines 136-139: the Start Authentication button of a new login screen
NewAuthButton(face_exists) == IF face_exists THEN "normal" ELSE "disabled"

\* line 211: handle_auth_result lets the user in
Grants_always(success) == TRUE
Grants(success) == success

\* lines 141-184: Setup Face starts the capture_face thread
setup_face ==
    /\ screen = "login"
    /\ setup_threads < MaxThreads
    /\ setup_threads' = setup_threads + 1
    /\ last_call' = NoCall
    /\ UNCHANGED <<is_authenticated, screen, auth_button, user_face, auth_threads,
                   after_queue, vault_data, notes_text, handled>>
    /\ UNCHANGED <<authVars, deleteVars, enrollVars, matchVars, key_file, data_file, cipher, backups, rotation>>

\* the faces in the frame that SPACE captures: the user's
CapturedFaces == {<<<<0, 0>>>>}

\* lines 143-181: capture_face runs to its end: the camera did not open, or
\* the loop ended with SPACE (the frame is written to user_face.jpg), with q
\* or a failed read; nothing here touches self.face_auth
capture_face(opened, captured, faces) ==
    /\ setup_threads > 0
    /\ setup_threads' = setup_threads - 1
    /\ user_face' = (user_face \/ (opened /\ captured))
    /\ reference_image' = IF opened /\ captured THEN File(faces) ELSE reference_image
    /\ auth_button' = IF opened /\ screen = "login" THEN "normal" ELSE auth_button
    /\ last_call' = NoCall
    /\ UNCHANGED <<is_authenticated, screen, auth_threads, after_queue,
                   vault_data, notes_text, handled>>
    /\ UNCHANGED <<encodings_file, enrollment>>
    /\ UNCHANGED <<authVars, deleteVars, matchVars, key_file, data_file, cipher, backups, rotation>>

\* lines 186-196: Start Authentication
start_face_auth ==
    /\ screen = "login"
    /\ auth_button = "normal"
    /\ IF ~user_face
       THEN UNCHANGED <<auth_button, auth_threads>>
       ELSE /\ auth_threads < MaxThreads
            /\ auth_button' = "disabled"
            /\ auth_threads' = auth_threads + 1
    /\ last_call' = NoCall
    /\ UNCHANGED <<is_authenticated, screen, user_face, setup_threads, after_queue,
                   vault_data, notes_text, handled>>
    /\ UNCHANGED <<authVars, deleteVars, enrollVars, matchVars, key_file, data_file, cipher, backups, rotation>>

\* lines 198-207: the worker thread's authenticate() returns and the result
\* is posted to the main thread
authenticate_face(res) ==
    /\ auth_threads > 0
    /\ res \in AuthenticateResults(known_face_encodings)
    /\ Len(after_queue) < MaxQueue
    /\ auth_threads' = auth_threads - 1
    /\ after_queue' = Append(after_queue, res)
    /\ last_call' = NoCall
    /\ UNCHANGED <<is_authenticated, screen, auth_button, user_face, setup_threads,
                   vault_data, notes_text, handled>>
    /\ UNCHANGED <<authVars, deleteVars, enrollVars, matchVars, key_file, data_file, cipher, backups, rotation>>

\* lines 209-218, 220-290: handle_auth_result, with load_vault_interface and
\* load_vault_data on success
handle_auth_result ==
    /\ after_queue # <<>>
    /\ LET res == Head(after_queue)
       IN /\ handled' = res
          /\ after_queue' = Tail(after_queue)
          /\ IF Grants(res.success)
             THEN /\ is_authenticated' = TRUE
                  /\ screen' = "vault"
                  /\ last_call' = load_data(data_file, cipher)
                  /\ vault_data' = last_call'.returned
                  /\ notes_text' = IF "notes" \in DOMAIN vault_data'
                                   THEN vault_data'.notes ELSE ""
                  /\ UNCHANGED auth_button
             ELSE /\ auth_button' = IF screen = "login" THEN "normal" ELSE auth_button
                  /\ last_call' = NoCall
                  /\ UNCHANGED <<is_authenticated, screen, vault_data, notes_text>>
    /\ UNCHANGED <<user_face, auth_threads, setup_threads>>
    /\ UNCHANGED <<authVars, deleteVars, enrollVars, matchVars, key_file, data_file, cipher, backups, rotation>>

\* the user types in the notes widget of the vault screen
edit_notes(n) ==
    /\ screen = "vault"
    /\ notes_text # n
    /\ notes_text' = n
    /\ last_call' = NoCall
    /\ UNCHANGED <<is_authenticated, screen, auth_button, user_face, auth_threads,
                   setup_threads, after_queue, vault_data, handled>>
    /\ UNCHANGED <<authVars, deleteVars, enrollVars, matchVars, key_file, data_file, cipher, backups, rotation>>

\* lines 292-306: Save
save_vault_data(stamp, io) ==
    /\ screen = "vault"
    /\ vault_data' = [notes |-> notes_text, last_modified |-> stamp]
    /\ data_file' = save_data_file(data_file, cipher, vault_data', io)
    /\ last_call' = save_data_call(data_file, vault_data', io)
    /\ UNCHANGED <<is_authenticated, screen, auth_button, user_face, auth_threads,
                   setup_threads, after_queue, notes_text, handled>>
    /\ UNCHANGED <<authVars, deleteVars, enrollVars, matchVars, key_file, cipher, backups, rotation>>

\* lines 308-311: Clear, confirmed
clear_notes ==
    /\ screen = "vault"
    /\ notes_text' = ""
    /\ last_call' = NoCall
    /\ UNCHANGED <<is_authenticated, screen, auth_button, user_face, auth_threads,
                   setup_threads, after_queue, vault_data, handled>>
    /\ UNCHANGED <<authVars, deleteVars, enrollVars, matchVars, key_file, data_file, cipher, backups, rotation>>

\* lines 313-317: Logout, confirmed
logout ==
    /\ screen = "vault"
    /\ is_authenticated' = FALSE
    /\ screen' = "login"
    /\ auth_button' = NewAuthButton(user_face)
    /\ last_call' = NoCall
    /\ UNCHANGED <<user_face, auth_threads, setup_threads, after_queue,
                   vault_data, notes_text, handled>>
    /\ UNCHANGED <<authVars, deleteVars, enrollVars, matchVars, key_file, data_file, cipher, backups, rotation>>

(***************************************************************************)
(* SpecApp                                                                 *)
(***************************************************************************)
\* lines 26-48: the application after __init__, with or without user_face.jpg;
\* with it, FaceAuthenticator() has made the encodings and their file
InitApp ==
    /\ user_face \in BOOLEAN
    /\ known_face_encodings = IF user_face THEN <<<<0, 0>>>> ELSE <<>>
    /\ reference_image = IF user_face THEN File(<<<<0, 0>>>>) ELSE NoFile
    /\ encodings_file = IF user_face THEN File(<<<<0, 0>>>>) ELSE NoFile
    /\ enrollment = NoEnrollment
    /\ InitAuthVars
    /\ InitDeleteIdle
    /\ InitMatchIdle
    /\ \E k \in Keys :
        /\ key_file = File(k)
        /\ cipher = k
        /\ data_file \in {NoFile} \cup {File(encrypt_data(k, r)) : r \in Records}
    /\ last_call = NoCall
    /\ backups = {}
    /\ rotation = NoRotation
    /\ is_authenticated = FALSE
    /\ screen = "login"
    /\ auth_button = NewAuthButton(user_face)
    /\ auth_threads = 0
    /\ setup_threads = 0
    /\ after_queue = <<>>
    /\ vault_data = EmptyRecord
    /\ notes_text = ""
    /\ handled = NoResult

NextApp ==
    \/ setup_face
    \/ \E opened \in BOOLEAN, captured \in BOOLEAN, faces \in CapturedFaces :
          capture_face(opened, captured, faces)
    \/ start_face_auth
    \/ \E res \in AuthenticateResults(known_face_encodings) : authenticate_face(res)
    \/ handle_auth_result
    \/ \E n \in Notes : edit_notes(n)
    \/ \E stamp \in (Stamps \ {""}), io \in IOs : save_vault_data(stamp, io)
    \/ clear_notes
    \/ logout

SpecApp == InitApp /\ [][NextApp]_vars

\* C9: load_data and save_data are invoked only while is_authenticated is
\* true, and is_authenticated becomes true only when handle_auth_result is
\* given the successful result of an authentication.
C9_VaultOnlyWhenAuthenticated ==
    /\ [](last_call.op \in {"load_data", "save_data"} => is_authenticated)
    /\ [][(~is_authenticated /\ is_authenticated') =>
             (after_queue # <<>> /\ handled' = Head(after_queue)
              /\ handled' = Result(TRUE, MsgSuccess))]_vars
    /\ [](screen = "vault" <=> is_authenticated)

C9_Witness ==
    /\ last_call.op = "save_data"
    /\ last_call.raised = ""
    /\ is_authenticated
    /\ handled = Result(TRUE, MsgSuccess)

\* an authentication run: a worker inside authenticate(), or a result that
\* handle_auth_result has not taken yet
RunsInProgress == auth_threads + Len(after_queue)

\* C32: at most one authentication run is in progress at any time, also
\* while a Setup Face capture runs and finishes.
C32_OneAuthenticationRun == RunsInProgress <= 1

\* the application started with no reference image and no encodings file,
\* and Setup Face has since captured an image with a face in it
EnrolledBySetup ==
    /\ ~encodings_file.exists
    /\ reference_image.exists
    /\ reference_image.bytes # <<>>

\* C33: after Setup Face captured a face in an application that started
\* unenrolled, Start Authentication runs against a non-empty reference set
\* and does not end as not enrolled.
C33_SetupThenAuthenticate ==
    [][EnrolledBySetup =>
          /\ (auth_threads' > auth_threads => known_face_encodings # <<>>)
          /\ (Len(after_queue') > Len(after_queue) =>
                 after_queue'[Len(after_queue')].message # MsgNoReference)]_vars

====
